---- MODULE Spec2Model ----
(***************************************************************************)
(* Model of the batch upload handler of capsula-tempo (src/app.py,         *)
(* handle_upload): request validation, the one-time folder lookup, the     *)
(* per-file upload loop with failure isolation, and the aggregated         *)
(* response.  The Drive service is an environment that answers every call  *)
(* with a result, an HttpError carrying a status, or another exception.    *)
(***************************************************************************)
EXTENDS Integers, Sequences, FiniteSets, TLC

(***************************************************************************)
(* Program constants                                                       *)
(***************************************************************************)
MAX_MB == 500

MAX_FILES_PER_UPLOAD == 10

\* 1024 * 1024, the divisor of every bytes-to-MB conversion
MB == 1048576

allowed_types ==
    { "image/jpeg", "image/png", "image/gif", "image/webp", "image/bmp",
      "video/mp4", "video/avi", "video/mov", "video/wmv", "video/quicktime",
      "application/pdf", "text/plain", "application/zip" }

(***************************************************************************)
(* Bounds of the model                                                     *)
(***************************************************************************)
\* largest number of file parts in a request (one more than the limit)
MaxFiles == 11

\* largest number of invalid files in a batch
MaxDeviant == 2

(***************************************************************************)
(* Inputs                                                                  *)
(***************************************************************************)
\* content_type of an upload part that declares no type (None)
NoType == "None"

\* the valid shapes of a file: a small file of an allowed type, and a file
\* exactly at the ceiling that declares no type
ValidFiles ==
    { [size |-> 1,           content_type |-> "image/png"],
      [size |-> MAX_MB * MB, content_type |-> NoType] }

\* the invalid shapes: empty, one byte above the ceiling, of a type outside
\* the allow-list, and the combinations that break two rules at once
InvalidFiles ==
    { [size |-> 0,               content_type |-> "image/png"],
      [size |-> 0,               content_type |-> "application/x-msdownload"],
      [size |-> MAX_MB * MB + 1, content_type |-> "image/png"],
      [size |-> MAX_MB * MB + 1, content_type |-> "application/x-msdownload"],
      [size |-> 1,               content_type |-> "application/x-msdownload"] }

\* Text is a sequence of characters, a character a string of length one.
Digits == <<"0", "1", "2", "3", "4", "5", "6", "7", "8", "9">>

\* str(n) of a natural number
RECURSIVE Decimal(_)
Decimal(n) == IF n < 10 THEN <<Digits[n + 1]>>
              ELSE Decimal(n \div 10) \o <<Digits[(n % 10) + 1]>>

\* the original name of the p-th part of a batch
FileName(p) == <<"f">> \o Decimal(p)

\* an upload part: filename is the part's original name
MkFile(name, kind) ==
    [filename |-> name, size |-> kind.size, content_type |-> kind.content_type]

\* the sets of positions of a batch of n files that hold an invalid file
DeviantPositions(n) == {S \in SUBSET (1..n) : Cardinality(S) <= MaxDeviant}

\* the batch of n files: files of the valid shape base, but for the
\* positions D, which hold the invalid shapes k
Batch(n, base, D, k) ==
    [p \in 1..n |-> MkFile(FileName(p), IF p \in D THEN k[p] ELSE base)]

HttpStatuses == {401, 403, 404, 500}

\* raw text of a remote error, as the service phrases it
Payloads == {1, 2}

OkResult == [kind |-> "ok", status |-> 200, payload |-> 0]

HttpError(s, p) == [kind |-> "HttpError", status |-> s, payload |-> p]

OtherException(p) == [kind |-> "Exception", status |-> 0, payload |-> p]

\* what files().get(...).execute() can produce
GetResults ==
    {OkResult} \cup {HttpError(s, p) : s \in HttpStatuses, p \in Payloads}
               \cup {OtherException(p) : p \in Payloads}

\* what files().create(...).execute() can produce
CreateResults == {OkResult, HttpError(403, 1), OtherException(2)}

(***************************************************************************)
(* State                                                                   *)
(***************************************************************************)
VARIABLES
    files,              \* the request's upload parts, in submission order
    consentimento,      \* the request's consent flag
    nome,               \* the request's guest name
    mensagem,           \* the request's message
    clock,              \* what datetime.utcnow() answers at each file read
    pc,                 \* position of the handler in its body
    i,                  \* loop counter of the validation / upload loop
    file_data_list,     \* the files accepted by validation
    total_size_bytes,   \* running sum of the sizes read so far
    uploaded_files,     \* entries of the files the service stored
    failed_files,       \* entries of the files whose upload raised
    calls,              \* the calls this request made to the Drive service
    response,           \* what the handler answered
    peer,               \* a second request served at the same time, if any
    config,             \* FOLDER_ID, MAX_MB and CREDS of the process
    max_attempts,       \* test_permissions_with_retry: the number of attempts
    attempt,            \* test_permissions_with_retry: the loop counter
    step,               \* test_permissions_with_retry: position in its body
    events,             \* test_permissions_with_retry: its calls and sleeps
    returned            \* test_permissions_with_retry: what it returned

\* the variables of the request
own == <<files, consentimento, nome, mensagem, clock, pc, i, file_data_list,
         total_size_bytes, uploaded_files, failed_files, calls, response>>

\* the variables of the diagnostic script
diag == <<max_attempts, attempt, step, events, returned>>

vars == <<own, peer, config, diag>>

\* the diagnostic script is not run
NoDiagnostic ==
    /\ max_attempts = 0
    /\ attempt = 0
    /\ step = "idle"
    /\ events = <<>>
    /\ returned = "nothing"

(***************************************************************************)
(* Detail texts of the HTTP errors ({} stands for a formatted value)       *)
(***************************************************************************)
MsgNoFiles == "Nenhum arquivo foi selecionado."

MsgTooManyFiles == "Maximo {} arquivos por upload."

MsgNoConsent == "E necessario aceitar o consentimento."

MsgEmptyFile == "Arquivo vazio: {}"

MsgFileTooBig == "Arquivo '{}' excede {}MB"

MsgTypeNotAllowed == "Tipo de arquivo nao permitido: {}"

MsgBatchTooBig == "Tamanho total do lote ({}MB) excede o limite ({}MB)"

MsgFolderNotFound == "Erro de configuracao: pasta do Google Drive nao encontrada ou sem permissao de acesso."

MsgFolderAccess == "Erro ao acessar pasta do Google Drive: {}"

MsgAllFailed == "Falha no upload de todos os arquivos"

MsgInternal == "Erro interno do servidor: {}"

\* the texts of the outermost except HttpError
MsgPermissionDenied == "Erro de permissao: a service account nao tem acesso a pasta do Google Drive."

MsgDriveNotFound == "Pasta do Google Drive nao encontrada. Verifique o FOLDER_ID."

MsgAuthInvalid == "Erro de autenticacao: credenciais invalidas ou expiradas."

MsgDriveApi == "Erro da API do Google Drive: {}"

(***************************************************************************)
(* Responses                                                               *)
(***************************************************************************)
NoDetail == [msg |-> "", args |-> <<>>]

Pending ==
    [kind |-> "pending", status |-> 0, detail |-> NoDetail, ok |-> FALSE,
     uploaded_files |-> <<>>, failed_files |-> <<>>,
     success_count |-> 0, total_count |-> 0]

\* raise HTTPException(status_code=status, detail=msg formatted with args)
HTTPException(status, msg, args) ==
    [kind |-> "HTTPException", status |-> status,
     detail |-> [msg |-> msg, args |-> args], ok |-> FALSE,
     uploaded_files |-> <<>>, failed_files |-> <<>>,
     success_count |-> 0, total_count |-> 0]

\* no exception raised by a check
NoRejection == Pending

\* str(e) of an error of the service: its status and its raw text
ErrStr(e) == <<e.status, e.payload>>

\* bytes / (1024 * 1024) > mb, the comparison of a size in MB with a limit
ExceedsMB(bytes, mb) ==
    \/ bytes \div MB > mb
    \/ bytes \div MB = mb /\ bytes % MB > 0

\* The running total is an unbounded integer in the program; here it is kept
\* as whole MB and remaining bytes, total = mb * MB + rem with rem < MB.
ZeroBytes == [mb |-> 0, rem |-> 0]

\* total_size_bytes += size
AddBytes(total, size) ==
    [mb  |-> total.mb + (total.rem + size) \div MB,
     rem |-> (total.rem + size) % MB]

\* total_size_bytes / (1024 * 1024) > mb
TotalExceedsMB(total, mb) ==
    \/ total.mb > mb
    \/ total.mb = mb /\ total.rem > 0

(***************************************************************************)
(* The checks of the validation stage                                      *)
(***************************************************************************)

\* variant: the upper bound of the file count is compared with >=
CountRejectionOffByOne(n) ==
    IF n = 0
    THEN HTTPException(400, MsgNoFiles, <<>>)
    ELSE IF n >= MAX_FILES_PER_UPLOAD
    THEN HTTPException(413, MsgTooManyFiles, <<MAX_FILES_PER_UPLOAD>>)
    ELSE NoRejection

CountRejection(n) ==
    IF n = 0
    THEN HTTPException(400, MsgNoFiles, <<>>)
    ELSE IF n > MAX_FILES_PER_UPLOAD
    THEN HTTPException(413, MsgTooManyFiles, <<MAX_FILES_PER_UPLOAD>>)
    ELSE NoRejection

\* variant: the consent flag is not checked
ConsentRejectionNever(consent) == NoRejection

ConsentRejection(consent) ==
    IF ~consent
    THEN HTTPException(400, MsgNoConsent, <<>>)
    ELSE NoRejection

\* variant: the type of a file is not checked
FileRejectionAnyType(file) ==
    IF file.size = 0
    THEN HTTPException(400, MsgEmptyFile, <<file.filename>>)
    ELSE IF ExceedsMB(file.size, MAX_MB)
    THEN HTTPException(413, MsgFileTooBig, <<file.filename, MAX_MB>>)
    ELSE NoRejection

\* variant: the type of a file is checked before its size
FileRejectionTypeFirst(file) ==
    IF file.content_type # NoType /\ file.content_type \notin allowed_types
    THEN HTTPException(400, MsgTypeNotAllowed, <<file.filename>>)
    ELSE IF file.size = 0
    THEN HTTPException(400, MsgEmptyFile, <<file.filename>>)
    ELSE IF ExceedsMB(file.size, MAX_MB)
    THEN HTTPException(413, MsgFileTooBig, <<file.filename, MAX_MB>>)
    ELSE NoRejection

\* variant: a file that declares no type is turned away as well
FileRejectionStrictType(file) ==
    IF file.size = 0
    THEN HTTPException(400, MsgEmptyFile, <<file.filename>>)
    ELSE IF ExceedsMB(file.size, MAX_MB)
    THEN HTTPException(413, MsgFileTooBig, <<file.filename, MAX_MB>>)
    ELSE IF file.content_type \notin allowed_types
    THEN HTTPException(400, MsgTypeNotAllowed, <<file.filename>>)
    ELSE NoRejection

\* the three checks of a file, in the order of the loop body
FileRejection(file) ==
    IF file.size = 0
    THEN HTTPException(400, MsgEmptyFile, <<file.filename>>)
    ELSE IF ExceedsMB(file.size, MAX_MB)
    THEN HTTPException(413, MsgFileTooBig, <<file.filename, MAX_MB>>)
    ELSE IF file.content_type # NoType /\ file.content_type \notin allowed_types
    THEN HTTPException(400, MsgTypeNotAllowed, <<file.filename>>)
    ELSE NoRejection

\* the size of a file is added to the total once its size check has passed
CountedSize(file) ==
    IF file.size = 0 \/ ExceedsMB(file.size, MAX_MB) THEN 0 ELSE file.size

\* variant: the cap of the batch is the ceiling of one file
TotalRejectionFixedCap(total, n) ==
    IF TotalExceedsMB(total, MAX_MB)
    THEN HTTPException(413, MsgBatchTooBig, <<total.mb, MAX_MB>>)
    ELSE NoRejection

TotalRejection(total, n) ==
    IF TotalExceedsMB(total, MAX_MB * n)
    THEN HTTPException(413, MsgBatchTooBig, <<total.mb, MAX_MB * n>>)
    ELSE NoRejection

(***************************************************************************)
(* Filename derivation                                                     *)
(***************************************************************************)
\* the characters str.isalnum accepts (the letters and digits of ASCII)
AlnumChars ==
    { "a", "b", "c", "d", "e", "f", "g", "h", "i", "j", "k", "l", "m",
      "n", "o", "p", "q", "r", "s", "t", "u", "v", "w", "x", "y", "z",
      "A", "B", "C", "D", "E", "F", "G", "H", "I", "J", "K", "L", "M",
      "N", "O", "P", "Q", "R", "S", "T", "U", "V", "W", "X", "Y", "Z",
      "0", "1", "2", "3", "4", "5", "6", "7", "8", "9" }

\* c.isalnum() or c in " -_"
KeptChar(c) == c \in AlnumChars \/ c \in {" ", "-", "_"}

\* str.strip(): the text without its leading and trailing blanks
RECURSIVE LStrip(_)
LStrip(t) == IF t # <<>> /\ Head(t) = " " THEN LStrip(Tail(t)) ELSE t

RECURSIVE RStrip(_)
RStrip(t) == IF t # <<>> /\ t[Len(t)] = " "
             THEN RStrip(SubSeq(t, 1, Len(t) - 1)) ELSE t

Strip(t) == RStrip(LStrip(t))

\* the length the guest name is cut to
MaxGuestLen == 60

\* t[:k]
Prefix(t, k) == SubSeq(t, 1, IF Len(t) < k THEN Len(t) ELSE k)

Placeholder == <<"C", "o", "n", "v", "i", "d", "a", "d", "o">>

\* variant: an empty result is kept
SafeGuestNoFallback(guest) ==
    Prefix(Strip(SelectSeq(guest, KeptChar)), MaxGuestLen)

\* "".join(c for c in nome if c.isalnum() or c in " -_").strip()[:60] or "Convidado"
SafeGuest(guest) ==
    LET cut == Prefix(Strip(SelectSeq(guest, KeptChar)), MaxGuestLen)
    IN  IF cut = <<>> THEN Placeholder ELSE cut

\* "%02d" and "%04d": the decimal digits, filled with zeros up to the width
RECURSIVE ZeroPad(_, _)
ZeroPad(t, width) == IF Len(t) < width THEN ZeroPad(<<"0">> \o t, width) ELSE t

\* datetime.strftime("%Y%m%d-%H%M%S")
StrfTime(t) ==
    ZeroPad(Decimal(t.year), 4) \o ZeroPad(Decimal(t.month), 2)
        \o ZeroPad(Decimal(t.day), 2) \o <<"-">>
        \o ZeroPad(Decimal(t.hour), 2) \o ZeroPad(Decimal(t.minute), 2)
        \o ZeroPad(Decimal(t.second), 2)

Sep == <<"_", "_">>

\* variant: the index is written without its leading zero
DriveFilenameUnpadded(ts, safe_guest, idx, filename) ==
    ts \o Sep \o safe_guest \o Sep \o Decimal(idx) \o Sep \o filename

\* variant: the name carries no index
DriveFilenameNoIndex(ts, safe_guest, idx, filename) ==
    ts \o Sep \o safe_guest \o Sep \o filename

\* f"{ts}__{safe_guest}__{i:02d}__{file.filename}"
DriveFilename(ts, safe_guest, idx, filename) ==
    ts \o Sep \o safe_guest \o Sep \o ZeroPad(Decimal(idx), 2) \o Sep \o filename

\* the entry of file_data_list for the file at position idx, read at time now
FileData(idx, file, now, guest) ==
    [filename |-> DriveFilename(StrfTime(now), SafeGuest(guest), idx, file.filename),
     original_filename |-> file.filename,
     content_type |-> file.content_type,
     size_bytes |-> file.size]

\* variant: positions are counted from zero
DescriptionZeroBased(guest, message, idx, n) ==
    [nome |-> guest, mensagem |-> message, index |-> idx - 1, total |-> n]

\* the description of the remote object: guest, message, "Arquivo i de n"
Description(guest, message, idx, n) ==
    [nome |-> guest, mensagem |-> message, index |-> idx, total |-> n]

\* file_metadata of the create call (the folder is the same for all)
FileMetadata(file_data, guest, message, idx, n) ==
    [name |-> file_data.filename,
     description |-> Description(guest, message, idx, n)]

(***************************************************************************)
(* Folder precheck and upload loop                                         *)
(***************************************************************************)

\* variant: a missing folder is not told apart from the other errors
PrecheckErrorGeneric(e) ==
    HTTPException(500, MsgFolderAccess, ErrStr(e))

\* except HttpError around the folder lookup
PrecheckError(e) ==
    IF e.status = 404
    THEN HTTPException(500, MsgFolderNotFound, <<>>)
    ELSE HTTPException(500, MsgFolderAccess, ErrStr(e))

\* the outermost except HttpError.  No HttpError reaches it: the folder lookup
\* and every upload sit in a try of their own, and what those raise is an
\* HTTPException, which the clause before this one passes on.
DriveApiError(e) ==
    IF e.status = 403 THEN HTTPException(500, MsgPermissionDenied, <<>>)
    ELSE IF e.status = 404 THEN HTTPException(500, MsgDriveNotFound, <<>>)
    ELSE IF e.status = 401 THEN HTTPException(500, MsgAuthInvalid, <<>>)
    ELSE HTTPException(500, MsgDriveApi, ErrStr(e))

\* variant: there is no outermost except Exception, the exception leaves the
\* handler as it is
UnexpectedErrorEscapes(e) ==
    [HTTPException(500, MsgInternal, ErrStr(e)) EXCEPT !.kind = "Exception"]

\* the outermost except Exception
UnexpectedError(e) ==
    HTTPException(500, MsgInternal, ErrStr(e))

NoMetadata == [name |-> <<>>, description |-> Description(<<>>, <<>>, 0, 0)]

GetFolderCall(r) ==
    [op |-> "getFolder", arg |-> 0, metadata |-> NoMetadata, result |-> r]

CreateFileCall(idx, meta, r) ==
    [op |-> "createFile", arg |-> idx, metadata |-> meta, result |-> r]

\* variant: the folder is looked up again before every upload
IssueCreateWithLookup(log, idx, meta, r) ==
    Append(Append(log, GetFolderCall(OkResult)), CreateFileCall(idx, meta, r))

\* the remote calls one iteration of the upload loop issues
IssueCreate(log, idx, meta, r) == Append(log, CreateFileCall(idx, meta, r))

UploadedEntry(file_data, remote_id) ==
    [id |-> remote_id,
     name |-> file_data.filename,
     original_filename |-> file_data.original_filename,
     size_bytes |-> file_data.size_bytes]

FailedEntry(file_data, e) ==
    [filename |-> file_data.original_filename, error |-> ErrStr(e)]

\* variant: the except clause of the loop records nothing
RecordFailureDropped(failed, file_data, e) == failed

RecordFailure(failed, file_data, e) == Append(failed, FailedEntry(file_data, e))

\* variant: a failed upload ends the loop
AfterFailureAbort(idx, n) == n + 1

\* the loop counter after an iteration whose upload raised
AfterFailure(idx, n) == idx + 1

\* variant: any failed file turns the batch into an error
BatchResultStrict(uploaded, failed, data) ==
    IF Len(uploaded) = 0 \/ Len(failed) > 0
    THEN HTTPException(500, MsgAllFailed, <<>>)
    ELSE [kind |-> "TemplateResponse", status |-> 200, detail |-> NoDetail,
          ok |-> TRUE,
          uploaded_files |-> uploaded, failed_files |-> failed,
          success_count |-> Len(uploaded), total_count |-> Len(data)]

\* variant: the batch result is rendered without the check for zero successes
BatchResultLenient(uploaded, failed, data) ==
    [kind |-> "TemplateResponse", status |-> 200, detail |-> NoDetail,
     ok |-> TRUE,
     uploaded_files |-> uploaded, failed_files |-> failed,
     success_count |-> Len(uploaded), total_count |-> Len(data)]

\* the check of the batch result and the rendered report
BatchResult(uploaded, failed, data) ==
    IF Len(uploaded) = 0
    THEN HTTPException(500, MsgAllFailed, <<>>)
    ELSE [kind |-> "TemplateResponse", status |-> 200, detail |-> NoDetail,
          ok |-> TRUE,
          uploaded_files |-> uploaded, failed_files |-> failed,
          success_count |-> Len(uploaded), total_count |-> Len(data)]

(***************************************************************************)
(* The handler, as steps on the local state of one request                 *)
(***************************************************************************)
\* the locals of a request that has just arrived
Arrived(fs, consent, nm, msg, clk) ==
    [files |-> fs, consentimento |-> consent, nome |-> nm, mensagem |-> msg,
     clock |-> clk, pc |-> "check_count", i |-> 0,
     file_data_list |-> <<>>, total_size_bytes |-> ZeroBytes,
     uploaded_files |-> <<>>, failed_files |-> <<>>,
     calls |-> <<>>, response |-> Pending]

\* an HTTPException leaves the handler through `except HTTPException: raise`
Raise(s, exc) == [s EXCEPT !.response = exc, !.pc = "done"]

DoCheckFileCount(s) ==
    LET r == CountRejection(Len(s.files))
    IN  IF r # NoRejection THEN Raise(s, r)
        ELSE [s EXCEPT !.pc = "check_consent"]

DoCheckConsent(s) ==
    LET r == ConsentRejection(s.consentimento)
    IN  IF r # NoRejection THEN Raise(s, r)
        ELSE [s EXCEPT !.pc = "validate", !.i = 1]

\* one iteration of the validation loop: read file i and check it
DoValidateFile(s) ==
    LET file  == s.files[s.i]
        r     == FileRejection(file)
        total == AddBytes(s.total_size_bytes, CountedSize(file))
    IN  IF r # NoRejection
        THEN Raise([s EXCEPT !.total_size_bytes = total], r)
        ELSE [s EXCEPT
                !.total_size_bytes = total,
                !.file_data_list =
                    Append(@, FileData(s.i, file, s.clock[s.i], s.nome)),
                !.pc = IF s.i = Len(s.files) THEN "check_total" ELSE "validate",
                !.i  = IF s.i = Len(s.files) THEN s.i ELSE s.i + 1]

DoCheckTotalSize(s) ==
    LET r == TotalRejection(s.total_size_bytes, Len(s.files))
    IN  IF r # NoRejection THEN Raise(s, r)
        ELSE [s EXCEPT !.pc = "folder_check"]

\* build the client and look the folder up, once; r is the service's answer
DoFolderCheck(s, r) ==
    LET t == [s EXCEPT !.calls = Append(@, GetFolderCall(r))]
    IN  IF r.kind = "ok" THEN [t EXCEPT !.pc = "upload", !.i = 1]
        ELSE IF r.kind = "HttpError" THEN Raise(t, PrecheckError(r))
        ELSE Raise(t, UnexpectedError(r))

\* one iteration of the upload loop: send file i, record how it went
DoUploadFile(s, r) ==
    LET file_data == s.file_data_list[s.i]
        n         == Len(s.file_data_list)
        meta      == FileMetadata(file_data, s.nome, s.mensagem, s.i, n)
        next      == IF r.kind = "ok" THEN s.i + 1 ELSE AfterFailure(s.i, n)
    IN  [s EXCEPT
           !.calls = IssueCreate(@, s.i, meta, r),
           !.uploaded_files =
               IF r.kind = "ok"
               THEN Append(@, UploadedEntry(file_data, Len(s.calls)))
               ELSE @,
           !.failed_files =
               IF r.kind = "ok" THEN @ ELSE RecordFailure(@, file_data, r),
           !.pc = IF next > n THEN "report" ELSE "upload",
           !.i  = IF next > n THEN s.i ELSE next]

\* the check of the batch result and the answer
DoReport(s) ==
    [s EXCEPT
       !.response = BatchResult(s.uploaded_files, s.failed_files, s.file_data_list),
       !.pc = "done"]

\* the states a request can be in after its next step
NextStates(s) ==
    CASE s.pc = "check_count"   -> {DoCheckFileCount(s)}
      [] s.pc = "check_consent" -> {DoCheckConsent(s)}
      [] s.pc = "validate"      -> {DoValidateFile(s)}
      [] s.pc = "check_total"   -> {DoCheckTotalSize(s)}
      [] s.pc = "folder_check"  -> {DoFolderCheck(s, r) : r \in GetResults}
      [] s.pc = "upload"        -> {DoUploadFile(s, r) : r \in CreateResults}
      [] s.pc = "report"        -> {DoReport(s)}
      [] OTHER                  -> {}

(***************************************************************************)
(* Initial states                                                          *)
(***************************************************************************)
\* the time of the example, 2025-01-02T03:04:05Z, and the second after it
T0 == [year |-> 2025, month |-> 1, day |-> 2, hour |-> 3, minute |-> 4, second |-> 5]

T1 == [year |-> 2025, month |-> 1, day |-> 2, hour |-> 3, minute |-> 4, second |-> 6]

\* the default of the form field nome
DefaultNome == <<"C", "o", "n", "v", "i", "d", "a", "d", "o", "(", "a", ")">>

\* no second request
NoPeer ==
    [Arrived(<<>>, FALSE, <<>>, <<>>, <<>>) EXCEPT !.pc = "absent"]

Config == [FOLDER_ID |-> "FOLDER_ID", MAX_MB |-> MAX_MB, CREDS |-> "CREDS"]

\* the variables of the request hold the locals s
Holds(s) ==
    /\ files = s.files
    /\ consentimento = s.consentimento
    /\ nome = s.nome
    /\ mensagem = s.mensagem
    /\ clock = s.clock
    /\ pc = s.pc
    /\ i = s.i
    /\ file_data_list = s.file_data_list
    /\ total_size_bytes = s.total_size_bytes
    /\ uploaded_files = s.uploaded_files
    /\ failed_files = s.failed_files
    /\ calls = s.calls
    /\ response = s.response

\* a request has arrived: any batch, with or without consent, the default
\* guest name, all files read within one second
Init ==
    /\ \E n \in 0..MaxFiles :
         \E base \in ValidFiles, D \in DeviantPositions(n) :
           \E k \in [D -> InvalidFiles] :
             /\ files = Batch(n, base, D, k)
             /\ clock = [p \in 1..n |-> T0]
    /\ consentimento \in BOOLEAN
    /\ nome = DefaultNome
    /\ mensagem = <<>>
    /\ pc = "check_count"
    /\ i = 0
    /\ file_data_list = <<>>
    /\ total_size_bytes = ZeroBytes
    /\ uploaded_files = <<>>
    /\ failed_files = <<>>
    /\ calls = <<>>
    /\ response = Pending
    /\ peer = NoPeer
    /\ config = Config
    /\ NoDiagnostic

(***************************************************************************)
(* Actions                                                                 *)
(***************************************************************************)
\* the locals of the request
Own ==
    [files |-> files, consentimento |-> consentimento, nome |-> nome,
     mensagem |-> mensagem, clock |-> clock, pc |-> pc, i |-> i,
     file_data_list |-> file_data_list, total_size_bytes |-> total_size_bytes,
     uploaded_files |-> uploaded_files, failed_files |-> failed_files,
     calls |-> calls, response |-> response]

\* the request takes the step to s; nothing else changes
Becomes(s) ==
    /\ files' = s.files
    /\ consentimento' = s.consentimento
    /\ nome' = s.nome
    /\ mensagem' = s.mensagem
    /\ clock' = s.clock
    /\ pc' = s.pc
    /\ i' = s.i
    /\ file_data_list' = s.file_data_list
    /\ total_size_bytes' = s.total_size_bytes
    /\ uploaded_files' = s.uploaded_files
    /\ failed_files' = s.failed_files
    /\ calls' = s.calls
    /\ response' = s.response
    /\ UNCHANGED <<peer, config, diag>>

CheckFileCount == pc = "check_count" /\ Becomes(DoCheckFileCount(Own))

CheckConsent == pc = "check_consent" /\ Becomes(DoCheckConsent(Own))

ValidateFile == pc = "validate" /\ Becomes(DoValidateFile(Own))

CheckTotalSize == pc = "check_total" /\ Becomes(DoCheckTotalSize(Own))

FolderCheck ==
    /\ pc = "folder_check"
    /\ \E r \in GetResults : Becomes(DoFolderCheck(Own, r))

UploadFile ==
    /\ pc = "upload"
    /\ \E r \in CreateResults : Becomes(DoUploadFile(Own, r))

Report == pc = "report" /\ Becomes(DoReport(Own))

\* variant: the guest name is one variable of the process, which holds the
\* name of the request that arrived first
PeerStepSharedName ==
    /\ \E t \in NextStates([peer EXCEPT !.nome = nome]) :
          peer' = [t EXCEPT !.nome = peer.nome]
    /\ UNCHANGED <<own, config, diag>>

\* a step of the second request, on its own locals
PeerStep ==
    /\ \E t \in NextStates(peer) : peer' = t
    /\ UNCHANGED <<own, config, diag>>

Next ==
    \/ CheckFileCount
    \/ CheckConsent
    \/ ValidateFile
    \/ CheckTotalSize
    \/ FolderCheck
    \/ UploadFile
    \/ Report

Spec == Init /\ [][Next]_vars

(***************************************************************************)
(* A request whose steps are all taken in the end: the handler runs on     *)
(* without waiting for anything but the service, and every call to the     *)
(* service returns                                                         *)
(***************************************************************************)
MaxLiveFiles == 3

\* an accepted file and a file of a type outside the allow-list
LiveShapes ==
    { [size |-> 1, content_type |-> "image/png"],
      [size |-> 1, content_type |-> "application/x-msdownload"] }

InitLive ==
    /\ \E n \in (0..MaxLiveFiles) \cup {MAX_FILES_PER_UPLOAD + 1} :
         \E shapes \in [1..n -> LiveShapes], consent \in BOOLEAN :
           Holds(Arrived([p \in 1..n |-> MkFile(FileName(p), shapes[p])],
                         consent, DefaultNome, <<>>, [p \in 1..n |-> T0]))
    /\ peer = NoPeer
    /\ config = Config
    /\ NoDiagnostic

SpecLive == InitLive /\ [][Next]_vars /\ WF_vars(Next)

(***************************************************************************)
(* Requests of named guests: accepted batches, free-text guest names       *)
(***************************************************************************)
MaxNamedFiles == 2

MaxNameLen == 3

\* letters a guest may type: a kept letter, a blank, a forbidden sign
NameAlphabet == {"a", " ", "@"}

\* the texts over NameAlphabet of length at most n
ShortNames(n) == UNION {[1..m -> NameAlphabet] : m \in 0..n}

Repeat(c, n) == [p \in 1..n |-> c]

JohnDoe == <<"J", "o", "h", "n", "@", "D", "o", "e", "!", "!">>

\* the guest names tried: every short text, the name of the example, the
\* default of the form, names with hyphen and underscore, names of the
\* length of the cut, one above it, and with a blank where the cut falls
GuestNames ==
    ShortNames(MaxNameLen)
        \cup { JohnDoe, DefaultNome,
               <<"A", "-", "b", "_", "9", " ", "c">>,
               Repeat("a", MaxGuestLen),
               Repeat("a", MaxGuestLen + 1),
               Repeat("a", MaxGuestLen - 1) \o <<" ", "b">>,
               <<" ">> \o Repeat("a", MaxGuestLen) \o <<"@">> }

PicPng == <<"p", "i", "c", ".", "p", "n", "g">>

OriginalNames == {PicPng, <<"a">>}

Mensagem == <<"o", "i">>

\* the readings of the clock during a batch of n files: time does not go back
Clocks(n) == {c \in [1..n -> {T0, T1}] :
                 \A p \in 1..n, q \in 1..n : p < q => c[p].second <= c[q].second}

InitNames ==
    /\ \E n \in 1..MaxNamedFiles :
         \E names \in [1..n -> OriginalNames], guest \in GuestNames,
            clk \in Clocks(n) :
           Holds(Arrived([p \in 1..n |->
                             MkFile(names[p],
                                    [size |-> 1, content_type |-> "image/png"])],
                         TRUE, guest, Mensagem, clk))
    /\ peer = NoPeer
    /\ config = Config
    /\ NoDiagnostic

SpecNames == InitNames /\ [][Next]_vars

(***************************************************************************)
(* Two requests served at the same time                                    *)
(***************************************************************************)
MaxConcFiles == 2

Ana == <<"A", "n", "a">>

Bia == <<"B", "i", "a">>

MensagemPeer == <<"o", "l", "a">>

\* n accepted files, all of one original name or each of its own
ConcFiles(n, namesakes) ==
    [p \in 1..n |->
        MkFile(IF namesakes THEN PicPng ELSE FileName(p),
               [size |-> 1, content_type |-> "image/png"])]

\* two requests have arrived, within the same second, from guests of the
\* same name or not
InitConc ==
    /\ \E n \in 1..MaxConcFiles, namesakes \in BOOLEAN :
         Holds(Arrived(ConcFiles(n, namesakes), TRUE, Ana, Mensagem,
                       [p \in 1..n |-> T0]))
    /\ \E m \in 1..MaxConcFiles, guest \in {Ana, Bia} :
         peer = Arrived(ConcFiles(m, TRUE), TRUE, guest, MensagemPeer,
                        [p \in 1..m |-> T0])
    /\ config = Config
    /\ NoDiagnostic

\* the steps of the two requests interleave
NextConc == Next \/ PeerStep

SpecConc == InitConc /\ [][NextConc]_vars

(***************************************************************************)
(* The diagnostic script test_permissions_with_retry                       *)
(***************************************************************************)
MaxAttempts == 5

\* how loading FOLDER_ID, the credentials and the client can end
SetupOutcomes == {"ok", "no FOLDER_ID", "Exception"}

\* what files().get(...).execute() can produce: the folder, with or without
\* the capability canAddChildren, an HttpError, another exception
LookupOutcomes ==
    {"canAddChildren", "no canAddChildren", "HttpError 404", "HttpError 403",
     "HttpError 500", "Exception"}

\* what files().create(...).execute() and files().delete(...).execute() can
\* produce
WriteOutcomes == {"ok", "HttpError 403", "Exception"}

IsHttpError(o) == o \in {"HttpError 404", "HttpError 403", "HttpError 500"}

Event(op, n, o) == [op |-> op, attempt |-> n, outcome |-> o]

\* variant: the script waits after the last attempt as well
AfterFailedAttemptAlwaysWait(n, max) ==
    IF n <= max THEN "sleep" ELSE "returned"

\* `if attempt < max_attempts: time.sleep(wait_seconds)`, `else: return False`
AfterFailedAttempt(n, max) ==
    IF n < max THEN "sleep" ELSE "returned"

\* the script is started with max_attempts attempts; the upload handler is
\* not part of the run
InitRetry ==
    /\ max_attempts \in 0..MaxAttempts
    /\ attempt = 0
    /\ step = "setup"
    /\ events = <<>>
    /\ returned = "nothing"
    /\ Holds(NoPeer)
    /\ peer = NoPeer
    /\ config = Config

\* `return value`
Return(value) ==
    /\ step' = "returned"
    /\ returned' = value

\* the attempt has failed: sleep and go on, or give up
FailedAttempt ==
    /\ step' = AfterFailedAttempt(attempt, max_attempts)
    /\ returned' = IF AfterFailedAttempt(attempt, max_attempts) = "returned"
                   THEN "False" ELSE returned

\* the outcome o of a call of the attempt, when it is not the good one:
\* except HttpError of the loop body, or the outermost except Exception
CallFailed(o) ==
    IF IsHttpError(o) THEN FailedAttempt ELSE Return("False")

\* FOLDER_ID, credentials, build, and the entry into the loop
Setup ==
    /\ step = "setup"
    /\ \E o \in SetupOutcomes :
         IF o = "ok" /\ max_attempts >= 1
         THEN /\ step' = "lookup"
              /\ attempt' = 1
              /\ returned' = returned
         ELSE /\ Return("False")
              /\ attempt' = attempt
    /\ UNCHANGED <<max_attempts, events, own, peer, config>>

\* the folder lookup of the attempt and the look at its capabilities
Lookup ==
    /\ step = "lookup"
    /\ \E o \in LookupOutcomes :
         /\ events' = Append(events, Event("get", attempt, o))
         /\ IF o = "canAddChildren"
            THEN step' = "create" /\ returned' = returned
            ELSE IF o = "no canAddChildren" THEN FailedAttempt
            ELSE CallFailed(o)
    /\ UNCHANGED <<max_attempts, attempt, own, peer, config>>

\* the test file is created
CreateTestFile ==
    /\ step = "create"
    /\ \E o \in WriteOutcomes :
         /\ events' = Append(events, Event("create", attempt, o))
         /\ IF o = "ok" THEN step' = "delete" /\ returned' = returned
            ELSE CallFailed(o)
    /\ UNCHANGED <<max_attempts, attempt, own, peer, config>>

\* the test file is deleted, and the script returns True
DeleteTestFile ==
    /\ step = "delete"
    /\ \E o \in WriteOutcomes :
         /\ events' = Append(events, Event("delete", attempt, o))
         /\ IF o = "ok" THEN Return("True") ELSE CallFailed(o)
    /\ UNCHANGED <<max_attempts, attempt, own, peer, config>>

\* time.sleep(wait_seconds), then the next round of the loop
Sleep ==
    /\ step = "sleep"
    /\ events' = Append(events, Event("sleep", attempt, "ok"))
    /\ attempt' = attempt + 1
    /\ step' = IF attempt + 1 <= max_attempts THEN "lookup" ELSE "returned"
    /\ returned' = IF attempt + 1 <= max_attempts THEN returned ELSE "False"
    /\ UNCHANGED <<max_attempts, own, peer, config>>

NextRetry ==
    \/ Setup
    \/ Lookup
    \/ CreateTestFile
    \/ DeleteTestFile
    \/ Sleep

\* every call returns and the script runs on: its steps are taken in the end
SpecRetry == InitRetry /\ [][NextRetry]_vars /\ WF_vars(NextRetry)

TypeOK ==
    /\ pc \in {"check_count", "check_consent", "validate", "check_total",
               "folder_check", "upload", "report", "done"}
    /\ i \in 0..MaxFiles
    /\ Len(file_data_list) <= Len(files)
    /\ response.kind \in {"pending", "HTTPException", "TemplateResponse"}

(***************************************************************************)
(* Properties                                                              *)
(***************************************************************************)
\* the folder lookup has been answered with the folder
PrecheckOk == Len(calls) >= 1 /\ calls[1].result.kind = "ok"

\* the folder lookup has been answered with an error
PrecheckFailed == Len(calls) >= 1 /\ calls[1].result.kind # "ok"

\* number of files the upload loop has finished with
Processed == IF pc = "upload" THEN i - 1 ELSE Len(files)

\* the createFile calls received so far, in order
CreateCalls == SelectSeq(calls, LAMBDA c : c.op = "createFile")

\* the createFile calls that were answered with an error, in order
FailedCalls == SelectSeq(calls, LAMBDA c : c.op = "createFile" /\ c.result.kind # "ok")

\* C1: once the folder precheck has succeeded, the succeeded list and the
\* failed list together hold exactly as many entries as files have been
\* processed: i after the i-th file, and the number of submitted files once
\* the loop has finished, whatever mix of successes and errors occurred; the
\* counts of the report add up to the number of submitted files as well.
C1_SucceededPlusFailed ==
    PrecheckOk =>
        /\ Len(uploaded_files) + Len(failed_files) = Processed
        /\ response.kind = "TemplateResponse" =>
             /\ response.success_count + Len(response.failed_files) = Len(files)
             /\ response.total_count = Len(files)
             /\ Len(response.uploaded_files) = response.success_count

C1_Witness ==
    /\ pc = "done"
    /\ PrecheckOk
    /\ Len(files) = MAX_FILES_PER_UPLOAD
    /\ Len(uploaded_files) >= 2
    /\ Len(failed_files) >= 2

\* C2: once the folder precheck has succeeded, the service receives exactly
\* one createFile call per processed file, in submission order, whatever
\* the earlier files did (no call is skipped, none is repeated), and the
\* failed list holds, in order, one entry per call that raised, carrying
\* the original name of that file and the text of the error.
C2_EveryFileAttemptedOnce ==
    PrecheckOk =>
        /\ Len(CreateCalls) = Processed
        /\ \A j \in 1..Len(CreateCalls) : CreateCalls[j].arg = j
        /\ Len(failed_files) = Len(FailedCalls)
        /\ \A j \in 1..Len(FailedCalls) :
             /\ j <= Len(failed_files)
             /\ failed_files[j].filename = files[FailedCalls[j].arg].filename
             /\ failed_files[j].error =
                  <<FailedCalls[j].result.status, FailedCalls[j].result.payload>>

C2_Witness ==
    /\ pc = "done"
    /\ PrecheckOk
    /\ Len(files) >= 3
    /\ calls[2].result.kind # "ok"
    /\ calls[Len(calls)].result.kind = "ok"
    /\ Len(CreateCalls) = Len(files)

\* C3: a batch of N > 1 files on which createFile raised for exactly one
\* file, at whatever position, is answered with a success page (status 200,
\* ok) whose report has N - 1 uploaded entries and one failed entry, the
\* failed entry naming the file that failed.
C3_PartialSuccess ==
    (pc = "done" /\ PrecheckOk /\ Len(files) > 1 /\ Len(FailedCalls) = 1) =>
        /\ response.kind = "TemplateResponse"
        /\ response.ok
        /\ response.status = 200
        /\ Len(response.uploaded_files) = Len(files) - 1
        /\ response.success_count = Len(files) - 1
        /\ Len(response.failed_files) = 1
        /\ response.failed_files[1].filename = files[FailedCalls[1].arg].filename
        /\ \A j \in 1..Len(response.uploaded_files) :
             response.uploaded_files[j].original_filename
                 # files[FailedCalls[1].arg].filename

C3_Witness ==
    /\ pc = "done"
    /\ PrecheckOk
    /\ Len(files) = 5
    /\ Len(FailedCalls) = 1
    /\ FailedCalls[1].arg = 3
    /\ response.ok

\* C4: after a successful precheck the request is answered with a 500 that
\* carries no report exactly when no file was uploaded; with at least one
\* uploaded file the answer is the success page with both lists.
C4_TotalFailureIffNoSuccess ==
    (pc = "done" /\ PrecheckOk) =>
        /\ (response.kind = "HTTPException") <=> (Len(uploaded_files) = 0)
        /\ response.kind = "HTTPException" =>
             /\ response.status = 500
             /\ response.uploaded_files = <<>>
             /\ response.failed_files = <<>>
             /\ ~response.ok
        /\ Len(uploaded_files) > 0 =>
             /\ response.kind = "TemplateResponse"
             /\ response.ok
             /\ response.uploaded_files = uploaded_files
             /\ response.failed_files = failed_files

C4_Witness ==
    /\ pc = "done"
    /\ PrecheckOk
    /\ Len(files) >= 3
    /\ Len(FailedCalls) = Len(files)
    /\ response.status = 500

\* C5: a request without consent never reaches the service (no getFolder,
\* no createFile), whatever its files are, and is answered with a 4xx.
C5_NoConsentNoRemoteCall ==
    ~consentimento =>
        /\ calls = <<>>
        /\ pc \in {"check_count", "check_consent", "done"}
        /\ pc = "done" =>
             /\ response.kind = "HTTPException"
             /\ response.status \in 400..499

C5_Witness ==
    /\ pc = "done"
    /\ ~consentimento
    /\ Len(files) \in 1..MAX_FILES_PER_UPLOAD
    /\ \A j \in 1..Len(files) : files[j].size = 1
    /\ response.detail.msg = MsgNoConsent

\* a file that breaks one of the per-file rules
Empty(f) == f.size = 0

Oversize(f) == f.size > MAX_MB * MB

BadType(f) == f.content_type # NoType /\ f.content_type \notin allowed_types

InvalidFile(f) == Empty(f) \/ Oversize(f) \/ BadType(f)

\* C6: a batch holding a file that is empty, above the per-file ceiling or of
\* a declared type outside the allow-list never reaches the service (no
\* getFolder, no createFile, for none of its files), is answered with a 4xx,
\* and the violation never shows as an entry of the failed list.
C6_ValidationFailFast ==
    (\E j \in 1..Len(files) : InvalidFile(files[j])) =>
        /\ calls = <<>>
        /\ failed_files = <<>>
        /\ uploaded_files = <<>>
        /\ pc \in {"check_count", "check_consent", "validate", "done"}
        /\ pc = "done" =>
             /\ response.kind = "HTTPException"
             /\ response.status \in 400..499
             /\ response.failed_files = <<>>

C6_Witness ==
    /\ pc = "done"
    /\ consentimento
    /\ Len(files) = MAX_FILES_PER_UPLOAD
    /\ \A j \in 1..(Len(files) - 1) : ~InvalidFile(files[j])
    /\ BadType(files[Len(files)])
    /\ Len(file_data_list) = Len(files) - 1
    /\ response.status = 400

\* C7: when the folder lookup is answered with an error, no createFile call
\* is made though every file passed validation, and the request ends with a
\* 500 without report; a 404 answer gives the configuration-error text, an
\* answer with any other status gives the folder-access text.
C7_PrecheckFailureAborts ==
    PrecheckFailed =>
        /\ Len(calls) = 1
        /\ calls[1].op = "getFolder"
        /\ Len(file_data_list) = Len(files)
        /\ pc = "done"
        /\ response.kind = "HTTPException"
        /\ response.status = 500
        /\ uploaded_files = <<>> /\ failed_files = <<>>
        /\ calls[1].result.kind = "HttpError" =>
             IF calls[1].result.status = 404
             THEN response.detail.msg = MsgFolderNotFound
             ELSE response.detail.msg = MsgFolderAccess

C7_Witness ==
    /\ PrecheckFailed
    /\ calls[1].result.status = 404
    /\ Len(files) = MAX_FILES_PER_UPLOAD
    /\ response.detail.msg = MsgFolderNotFound

\* the stage of the request
Stage ==
    CASE pc \in {"check_count", "check_consent", "validate", "check_total"} -> 1
      [] pc = "folder_check" -> 2
      [] pc = "upload" -> 3
      [] pc \in {"report", "done"} -> 4

GetFolderCalls == SelectSeq(calls, LAMBDA c : c.op = "getFolder")

\* the request passes every rule of the validation stage
PassesValidation ==
    /\ Len(files) \in 1..MAX_FILES_PER_UPLOAD
    /\ consentimento
    /\ \A j \in 1..Len(files) : ~InvalidFile(files[j])

C8_StageInvariant ==
    /\ Len(GetFolderCalls) <= 1
    /\ Stage = 1 => calls = <<>>
    /\ Stage = 2 => calls = <<>> /\ Len(file_data_list) = Len(files)
    /\ calls # <<>> =>
         /\ calls[1].op = "getFolder"
         /\ Len(file_data_list) = Len(files)
         /\ PassesValidation
    /\ Stage = 3 => Len(GetFolderCalls) = 1
    /\ (pc = "done" /\ PassesValidation) => Len(GetFolderCalls) = 1

\* C8: the request only moves forward through Validating, FolderChecking,
\* Uploading and Reporting; the folder is looked up exactly once for a batch
\* that passes validation, after the checks of all its files and before
\* the first createFile call, and never again.
C8_LinearStages ==
    /\ [](C8_StageInvariant)
    /\ [][Stage' >= Stage]_vars
    /\ [][Len(calls) >= 1 => SubSeq(calls', 1, Len(calls)) = calls]_vars

C8_Witness ==
    /\ pc = "done"
    /\ Len(files) = MAX_FILES_PER_UPLOAD
    /\ Len(calls) = MAX_FILES_PER_UPLOAD + 1
    /\ Len(GetFolderCalls) = 1

\* the rule a request breaks first, in the order of the validation stage
FirstInvalid == CHOOSE j \in 1..Len(files) :
                    /\ InvalidFile(files[j])
                    /\ \A m \in 1..(j - 1) : ~InvalidFile(files[m])

SumSizes[n \in 0..MaxFiles + 1] ==
    IF n = 0 \/ n > Len(files) THEN ZeroBytes
    ELSE AddBytes(SumSizes[n - 1], files[n].size)

ExpectedRejection ==
    IF Len(files) = 0 THEN [status |-> 400, msg |-> MsgNoFiles, args |-> <<>>]
    ELSE IF Len(files) > 10
    THEN [status |-> 413, msg |-> MsgTooManyFiles, args |-> <<10>>]
    ELSE IF ~consentimento
    THEN [status |-> 400, msg |-> MsgNoConsent, args |-> <<>>]
    ELSE IF \E j \in 1..Len(files) : InvalidFile(files[j])
    THEN LET f == files[FirstInvalid]
         IN  IF Empty(f)
             THEN [status |-> 400, msg |-> MsgEmptyFile, args |-> <<f.filename>>]
             ELSE IF Oversize(f)
             THEN [status |-> 413, msg |-> MsgFileTooBig, args |-> <<f.filename, MAX_MB>>]
             ELSE [status |-> 400, msg |-> MsgTypeNotAllowed, args |-> <<f.filename>>]
    ELSE IF TotalExceedsMB(SumSizes[Len(files)], MAX_MB * Len(files))
    THEN [status |-> 413, msg |-> MsgBatchTooBig,
          args |-> <<SumSizes[Len(files)].mb, MAX_MB * Len(files)>>]
    ELSE [status |-> 0, msg |-> "", args |-> <<>>]

ValidationMsgs ==
    {MsgNoFiles, MsgTooManyFiles, MsgNoConsent, MsgEmptyFile, MsgFileTooBig,
     MsgTypeNotAllowed, MsgBatchTooBig}

\* C9: the rejection a request gets is the one of the first rule it breaks
\* in the order: no file, too many files, consent, then file by file (empty,
\* oversize, type), then the aggregate size; a request that breaks no rule
\* gets no validation rejection.
C9_FirstViolationWins ==
    pc = "done" =>
        LET e == ExpectedRejection
        IN  IF e.status # 0
            THEN /\ response.kind = "HTTPException"
                 /\ response.status = e.status
                 /\ response.detail.msg = e.msg
                 /\ response.detail.args = e.args
            ELSE response.detail.msg \notin ValidationMsgs

C9_Witness ==
    /\ pc = "done"
    /\ consentimento
    /\ Len(files) = 3
    /\ ~InvalidFile(files[1])
    /\ Empty(files[2]) /\ BadType(files[2])
    /\ Oversize(files[3])
    /\ response.detail = [msg |-> MsgEmptyFile, args |-> <<files[2].filename>>]

\* the status a failing request ends with, by its cause
StatusOfCause(msg) ==
    CASE msg \in {MsgNoFiles, MsgNoConsent, MsgEmptyFile, MsgTypeNotAllowed} -> 400
      [] msg \in {MsgTooManyFiles, MsgFileTooBig, MsgBatchTooBig} -> 413
      [] msg \in {MsgFolderNotFound, MsgFolderAccess, MsgAllFailed, MsgInternal} -> 500
      [] OTHER -> 0

\* the cause of the failure of a request, from the request and the answers
\* of the service
CauseOfFailure ==
    IF ExpectedRejection.status # 0 THEN ExpectedRejection.msg
    ELSE IF PrecheckFailed
    THEN IF calls[1].result.kind = "HttpError"
         THEN IF calls[1].result.status = 404 THEN MsgFolderNotFound
              ELSE MsgFolderAccess
         ELSE MsgInternal
    ELSE MsgAllFailed

\* C10: a failing request ends with 400, 413 or 500, by its cause: 400 for
\* no file, no consent, an empty file, a type outside the allow-list; 413
\* for more than 10 files, a file above the ceiling, a batch above the
\* aggregate cap; 500 for a failure of the service, of all uploads, or an
\* unexpected error.  Ten files are not too many, and a file of exactly the
\* ceiling is not too large.
C10_StatusByCause ==
    /\ (pc = "done" /\ response.kind = "HTTPException") =>
         LET cause == CauseOfFailure
         IN  /\ response.status \in {400, 413, 500}
             /\ response.detail.msg = cause
             /\ response.status = StatusOfCause(cause)
    /\ (pc = "done" /\ Len(files) = 10) => response.detail.msg # MsgTooManyFiles
    /\ pc = "done" =>
         \A j \in 1..Len(files) :
            files[j].size = MAX_MB * MB =>
                ~(/\ response.detail.msg = MsgFileTooBig
                  /\ response.detail.args = <<files[j].filename, MAX_MB>>)
    /\ (PassesValidation /\ pc = "done") => calls # <<>>

C10_Witness ==
    /\ pc = "done"
    /\ consentimento
    /\ Len(files) = 10
    /\ \A j \in 1..9 : files[j].size = MAX_MB * MB
    /\ Oversize(files[10])
    /\ response.status = 413
    /\ response.detail.msg = MsgFileTooBig
    /\ response.detail.args = <<files[10].filename, MAX_MB>>

\* the class of a remote error, by its status
ClassOf(status) ==
    CASE status = 404 -> "not-found"
      [] status = 403 -> "permission-denied"
      [] status = 401 -> "authentication-invalid"
      [] OTHER -> "generic"

\* the createFile calls answered with an HttpError
HttpErrorCalls ==
    SelectSeq(calls, LAMBDA c : c.op = "createFile" /\ c.result.kind = "HttpError")

\* C11: a remote error is answered by its class (404, 403, 401, any other
\* status): the request ends with a 500 whose message is not the message
\* an error of another class is answered with, and this holds for an error
\* of the folder lookup and for an error of an upload alike.
C11_ClassifiedEverywhere ==
    /\ (PrecheckFailed /\ calls[1].result.kind = "HttpError") =>
         /\ response.kind = "HTTPException"
         /\ response.status = 500
         /\ \A s \in HttpStatuses, p \in Payloads :
              ClassOf(s) # ClassOf(calls[1].result.status) =>
                  PrecheckError(HttpError(s, p)).detail.msg # response.detail.msg
    /\ (pc = "done" /\ HttpErrorCalls # <<>>) =>
         /\ response.kind = "HTTPException"
         /\ response.status = 500
         /\ response.detail.msg \in
              {DriveApiError(HttpErrorCalls[j].result).detail.msg :
                   j \in 1..Len(HttpErrorCalls)}

\* C12: the detail of the answer to a failed folder lookup depends on the
\* status of the remote error alone: the same request, failing with the same
\* status and any other raw text, gets the same detail.
C12_PrecheckDetailRedacted ==
    (PrecheckFailed /\ calls[1].result.kind = "HttpError") =>
        \A p \in Payloads :
            PrecheckError(HttpError(calls[1].result.status, p)).detail
                = response.detail

\* a number below 100 written with two digits, below 10000 with four
TwoDigits(n) == <<Digits[(n \div 10) + 1], Digits[(n % 10) + 1]>>

FourDigits(n) == TwoDigits(n \div 100) \o TwoDigits(n % 100)

\* YYYYMMDD-HHMMSS of the time t
Stamp(t) ==
    FourDigits(t.year) \o TwoDigits(t.month) \o TwoDigits(t.day) \o <<"-">>
        \o TwoDigits(t.hour) \o TwoDigits(t.minute) \o TwoDigits(t.second)

\* 20250102-030405__JohnDoe__01__pic.png
ExampleName ==
    << "2", "0", "2", "5", "0", "1", "0", "2", "-", "0", "3", "0", "4", "0", "5",
       "_", "_", "J", "o", "h", "n", "D", "o", "e", "_", "_", "0", "1",
       "_", "_", "p", "i", "c", ".", "p", "n", "g" >>

\* C13: the remote name of the j-th accepted file is the time it was read at
\* as YYYYMMDD-HHMMSS, "__", the sanitized guest name, "__", j with two
\* digits, "__", the original name, and nothing else goes into it; this is
\* the name the createFile call of the file carries.  John@Doe!!, first
\* file, pic.png, read at 2025-01-02T03:04:05Z: 20250102-030405__JohnDoe__01__pic.png.
C13_RemoteName ==
    /\ \A j \in 1..Len(file_data_list) :
         file_data_list[j].filename =
             Stamp(clock[j]) \o <<"_", "_">> \o SafeGuest(nome) \o <<"_", "_">>
                 \o TwoDigits(j) \o <<"_", "_">> \o files[j].filename
    /\ \A j \in 1..Len(CreateCalls) :
         CreateCalls[j].metadata.name = file_data_list[j].filename
    /\ (/\ Len(file_data_list) >= 1
        /\ nome = JohnDoe
        /\ clock[1] = T0
        /\ files[1].filename = PicPng) => file_data_list[1].filename = ExampleName

C13_Witness ==
    /\ pc = "done"
    /\ nome = JohnDoe
    /\ clock[1] = T0
    /\ files[1].filename = PicPng
    /\ Len(CreateCalls) = 2
    /\ CreateCalls[1].metadata.name = ExampleName

\* the characters a sanitized guest name may hold
Allowed == AlnumChars \cup {" ", "-", "_"}

\* the guest name inside the remote name of the j-th accepted file: what
\* stands between the stamp with its "__" and the "__" before the index
GuestPart(j) ==
    LET f == file_data_list[j].filename
    IN  SubSeq(f, 18, Len(f) - Len(files[j].filename) - 6)

\* C14: the guest name used in a remote name holds only letters, digits,
\* blanks, hyphens and underscores, has at most 60 characters and at least
\* one; it is the placeholder Convidado when the guest name holds nothing
\* but blanks and characters outside that set.
C14_SanitizedGuest ==
    \A j \in 1..Len(file_data_list) :
        LET g == GuestPart(j)
        IN  /\ \A k \in 1..Len(g) : g[k] \in Allowed
            /\ Len(g) <= 60
            /\ Len(g) >= 1
            /\ (\A k \in 1..Len(nome) : nome[k] \notin Allowed \/ nome[k] = " ")
                 => g = <<"C", "o", "n", "v", "i", "d", "a", "d", "o">>

C14_Witness ==
    /\ pc = "done"
    /\ nome = <<" ", "@", " ">>
    /\ Len(file_data_list) = 2
    /\ GuestPart(2) = <<"C", "o", "n", "v", "i", "d", "a", "d", "o">>

\* the createFile calls that were answered with the stored object, in order
OkCalls == SelectSeq(calls, LAMBDA c : c.op = "createFile" /\ c.result.kind = "ok")

\* C19: the j-th createFile call is for the j-th submitted file: its remote
\* name ends with the two digits of j, "__" and the original name of that
\* file, its description says j of N with N the number of submitted files;
\* the uploaded list and the failed list hold their entries in the order of
\* submission.
C19_PositionsAgree ==
    /\ \A j \in 1..Len(CreateCalls) :
         LET c    == CreateCalls[j]
             name == c.metadata.name
             orig == files[j].filename
         IN  /\ c.arg = j
             /\ c.metadata.description.index = j
             /\ c.metadata.description.total = Len(files)
             /\ SubSeq(name, Len(name) - Len(orig) - 3, Len(name) - Len(orig) - 2)
                    = TwoDigits(j)
             /\ SubSeq(name, Len(name) - Len(orig) + 1, Len(name)) = orig
    /\ Len(uploaded_files) = Len(OkCalls)
    /\ \A k \in 1..Len(OkCalls) :
         /\ uploaded_files[k].name = OkCalls[k].metadata.name
         /\ uploaded_files[k].original_filename = files[OkCalls[k].arg].filename
         /\ k > 1 => OkCalls[k - 1].arg < OkCalls[k].arg
    /\ Len(failed_files) = Len(FailedCalls)
    /\ \A k \in 1..Len(FailedCalls) :
         /\ failed_files[k].filename = files[FailedCalls[k].arg].filename
         /\ k > 1 => FailedCalls[k - 1].arg < FailedCalls[k].arg

C19_Witness ==
    /\ pc = "done"
    /\ Len(files) = 2
    /\ Len(FailedCalls) = 1
    /\ FailedCalls[1].arg = 1
    /\ uploaded_files[1].name = CreateCalls[2].metadata.name
    /\ CreateCalls[2].metadata.description.index = 2
    /\ CreateCalls[2].metadata.description.total = 2

\* the first file of the batch that breaks a rule breaks the type rule alone
TypeIsFirstViolation ==
    /\ Len(files) \in 1..MAX_FILES_PER_UPLOAD
    /\ consentimento
    /\ \E j \in 1..Len(files) : InvalidFile(files[j])
    /\ LET f == files[FirstInvalid] IN BadType(f) /\ ~Empty(f) /\ ~Oversize(f)

\* C15: a request is turned away for the type of a file exactly when the
\* first file to break a rule declares a type outside the allow-list (and is
\* neither empty nor oversize); the file named in the rejection declares such
\* a type, so a file without declared type is never the one; and every file
\* a createFile call is made for declared an allow-listed type or none.
C15_TypeAllowList ==
    /\ pc = "done" =>
         ((response.detail.msg = MsgTypeNotAllowed) <=> TypeIsFirstViolation)
    /\ response.detail.msg = MsgTypeNotAllowed =>
         \E j \in 1..Len(files) :
            /\ response.detail.args = <<files[j].filename>>
            /\ files[j].content_type # NoType
            /\ files[j].content_type \notin allowed_types
    /\ \A j \in 1..Len(CreateCalls) :
         LET f == files[CreateCalls[j].arg]
         IN  f.content_type = NoType \/ f.content_type \in allowed_types

C15_Witness ==
    /\ pc = "done"
    /\ Len(files) = 3
    /\ \A j \in 1..3 : files[j].content_type = NoType
    /\ Len(CreateCalls) = 3
    /\ response.ok

\* every file of the batch is of exactly the size of the per-file ceiling
AllAtCeiling == \A j \in 1..Len(files) : files[j].size = MAX_MB * MB

\* C17: no request is answered with the batch-too-large rejection: when the
\* aggregate check runs, every file has passed its size check and the total
\* is at most MAX_MB times the number of files; a batch of 1..10 files of
\* exactly the ceiling each passes validation and reaches the service.
C17_AggregateNeverFires ==
    /\ response.detail.msg # MsgBatchTooBig
    /\ pc = "check_total" =>
         /\ total_size_bytes = SumSizes[Len(files)]
         /\ ~TotalExceedsMB(total_size_bytes, MAX_MB * Len(files))
         /\ TotalRejection(total_size_bytes, Len(files)) = NoRejection
    /\ (/\ consentimento
        /\ Len(files) \in 1..MAX_FILES_PER_UPLOAD
        /\ AllAtCeiling
        /\ \A j \in 1..Len(files) : ~BadType(files[j])) =>
           /\ response.detail.msg \notin ValidationMsgs
           /\ pc = "done" => calls # <<>>

C17_Witness ==
    /\ pc = "folder_check"
    /\ Len(files) = MAX_FILES_PER_UPLOAD
    /\ AllAtCeiling
    /\ total_size_bytes.mb = MAX_MB * MAX_FILES_PER_UPLOAD
    /\ total_size_bytes.rem = 0

\* the answers the service gave to the calls of a log, in order
Results(log) == [k \in 1..Len(log) |-> log[k].result]

\* the request s served alone, the service answering its calls with rs
RECURSIVE RunAlone(_, _)
RunAlone(s, rs) ==
    IF s.pc = "done" THEN s
    ELSE IF s.pc = "folder_check"
    THEN IF rs = <<>> THEN s ELSE RunAlone(DoFolderCheck(s, Head(rs)), Tail(rs))
    ELSE IF s.pc = "upload"
    THEN IF rs = <<>> THEN s ELSE RunAlone(DoUploadFile(s, Head(rs)), Tail(rs))
    ELSE RunAlone(CHOOSE t \in NextStates(s) : TRUE, rs)

\* the request s as it arrived
Inputs(s) == Arrived(s.files, s.consentimento, s.nome, s.mensagem, s.clock)

\* what the request s holds and sent comes from its own inputs alone
Isolated(s) ==
    /\ \A k \in 1..Len(s.uploaded_files) :
         \E j \in 1..Len(s.files) :
            /\ s.uploaded_files[k].original_filename = s.files[j].filename
            /\ s.uploaded_files[k].name = s.file_data_list[j].filename
    /\ \A k \in 1..Len(s.failed_files) :
         \E j \in 1..Len(s.files) :
            s.failed_files[k].filename = s.files[j].filename
    /\ \A j \in 1..Len(s.file_data_list) :
         LET f == s.file_data_list[j].filename
         IN  /\ s.file_data_list[j].original_filename = s.files[j].filename
             /\ SubSeq(f, 18, Len(f) - Len(s.files[j].filename) - 6)
                    = SafeGuest(s.nome)
    /\ \A k \in 1..Len(s.calls) :
         s.calls[k].op = "createFile" =>
            /\ s.calls[k].metadata.name = s.file_data_list[s.calls[k].arg].filename
            /\ s.calls[k].metadata.description.nome = s.nome
            /\ s.calls[k].metadata.description.mensagem = s.mensagem
            /\ s.calls[k].metadata.description.total = Len(s.files)
    /\ RunAlone(s, <<>>) = RunAlone(Inputs(s), Results(s.calls))
    /\ s.pc = "done" => s.response = RunAlone(Inputs(s), Results(s.calls)).response

\* C16: of two requests served with their steps interleaved, each holds in
\* its lists only its own files, names and describes them with its own
\* guest name and message, and is at every moment, its response included,
\* where it would be had it run alone with the same answers of the service
\* (up to the steps it can take without the service);
\* no step changes the configuration of the process.
C16_NoSharedState ==
    /\ [](Isolated(Own) /\ Isolated(peer))
    /\ [][config' = config]_vars

C16_Witness ==
    /\ pc = "upload" /\ i = 2
    /\ peer.pc = "upload" /\ peer.i = 2
    /\ peer.nome = Bia
    /\ Len(uploaded_files) = 1
    /\ Len(peer.failed_files) = 1

\* C18: the remote names of the files of one batch differ pairwise, in what
\* validation accepted and in what the createFile calls carry, for each of
\* the two requests, whatever the original names and the times of the reads.
C18_DistinctWithinBatch ==
    \A s \in {Own, peer} :
        /\ \A j \in 1..Len(s.file_data_list), k \in 1..Len(s.file_data_list) :
             j # k => s.file_data_list[j].filename # s.file_data_list[k].filename
        /\ \A j \in 1..Len(s.calls), k \in 1..Len(s.calls) :
             (j # k /\ s.calls[j].op = "createFile" /\ s.calls[k].op = "createFile")
                 => s.calls[j].metadata.name # s.calls[k].metadata.name

\* two files of one batch have the same original name and were read within
\* the same second, and a file of the other request got the remote name of
\* one of them
C18_Witness ==
    /\ Len(file_data_list) = 2
    /\ files[1].filename = files[2].filename
    /\ clock[1] = clock[2]
    /\ Len(CreateCalls) = 2
    /\ Len(peer.calls) >= 2
    /\ peer.calls[2].metadata.name = CreateCalls[1].metadata.name

\* the request has been answered, once
C20_OneOutcome ==
    /\ Len(GetFolderCalls) <= 1
    /\ Len(CreateCalls) <= Len(files)
    /\ pc = "done" => response.kind \in {"HTTPException", "TemplateResponse"}
    /\ pc # "done" => response = Pending

\* C20: when every call to the service returns, the request ends, answered
\* either with the report or with one HTTPException and with nothing else,
\* the answer once given stays, and the service has by then received at most
\* one folder lookup and at most one createFile call per submitted file.
C20_Terminates ==
    /\ <>(pc = "done")
    /\ [](C20_OneOutcome)
    /\ [][response # Pending => response' = response /\ calls' = calls]_vars

C20_Witness ==
    /\ pc = "done"
    /\ Len(files) = 3
    /\ Len(GetFolderCalls) = 1
    /\ Len(CreateCalls) = 3
    /\ Len(failed_files) = 2
    /\ response.kind = "TemplateResponse"

\* the folder lookups and the sleeps of the script so far, in order
Lookups == SelectSeq(events, LAMBDA e : e.op = "get")

Sleeps == SelectSeq(events, LAMBDA e : e.op = "sleep")

\* in attempt n the folder reported canAddChildren and the test file was
\* created and then deleted, one call after the other
GoodAttempt(n) ==
    \E a \in 1..(Len(events) - 2) :
        /\ events[a] = Event("get", n, "canAddChildren")
        /\ events[a + 1] = Event("create", n, "ok")
        /\ events[a + 2] = Event("delete", n, "ok")

\* the call or sleep the script did last
LastEvent == events[Len(events)]

C21_RetryInvariant ==
    /\ Len(Lookups) <= max_attempts
    /\ \A k \in 1..Len(Lookups) : Lookups[k].attempt = k
    /\ \A k \in 1..Len(events) :
         events[k].op = "sleep" =>
            /\ events[k].attempt < max_attempts
            /\ k > 1
            /\ events[k - 1].op # "sleep"
            /\ events[k - 1].attempt = events[k].attempt
            /\ events[k - 1].outcome \notin {"ok", "canAddChildren"}
            /\ k < Len(events) =>
                 events[k + 1] \in
                     {Event("get", events[k].attempt + 1, o) : o \in LookupOutcomes}
    /\ step = "sleep" => attempt < max_attempts
    /\ (step = "returned" /\ events # <<>>) => LastEvent.op # "sleep"
    /\ (step = "returned") <=> (returned \in {"True", "False"})
    /\ returned = "True" =>
         /\ \E n \in 1..max_attempts : GoodAttempt(n)
         /\ LastEvent = Event("delete", attempt, "ok")
    /\ (/\ step = "returned"
        /\ Len(Lookups) = max_attempts
        /\ ~\E n \in 1..max_attempts : GoodAttempt(n)) => returned = "False"
    /\ (/\ events # <<>>
        /\ LastEvent.attempt = max_attempts
        /\ LastEvent.outcome \notin {"ok", "canAddChildren"})
          => (step = "returned" /\ returned = "False")

\* C21: test_permissions_with_retry returns, after at most max_attempts
\* folder lookups; it sleeps only after a failed attempt that is not the last
\* one, each sleep being followed by the lookup of the next attempt, and
\* never before it returns; it returns True only when in one attempt the
\* folder reported canAddChildren and the test file was created and deleted;
\* it returns False when the last of max_attempts attempts has failed.
C21_RetryTerminates ==
    /\ <>(step = "returned")
    /\ [](C21_RetryInvariant)
    /\ [][step = "returned" => UNCHANGED diag]_vars

C21_Witness ==
    /\ step = "returned"
    /\ returned = "True"
    /\ max_attempts = 3
    /\ attempt = 3
    /\ Len(Lookups) = 3
    /\ Len(Sleeps) = 2
    /\ events[1] = Event("get", 1, "HttpError 403")
    /\ events[5] = Event("delete", 2, "HttpError 403")

====
